---- MODULE Spec2Model ----
(***************************************************************************)
(* Model of simulator/run_simulation.py: the SafetyBasalController policy  *)
(* and the run_headless_sim step loop driving a T1DSimEnv environment.     *)
(*                                                                         *)
(* Insulin amounts are kept in hundredths of a unit, so 0.05 U/min is 5    *)
(* and 1.0 U is 100.  A CGM reading is a float64; it is written as the     *)
(* number of tenths of mg/dL whose nearest float64 it is, so 70.0 is 700   *)
(* and 100.1 is 1001 (order and equality of readings are those of these    *)
(* numbers).  The aggregates over the CGM column are computed in float64   *)
(* arithmetic, on the exact binary value of each reading.  The environment *)
(* (simglucose) is external: its responses are chosen nondeterministically *)
(* from small sets.                                                        *)
(***************************************************************************)
EXTENDS Integers, Sequences, FiniteSets, TLC

\* ---------------------------------------------------------------- bounds
\* Largest step budget explored (the script itself uses sim_steps = 1440).
MaxSteps == 2
\* Largest step budget explored with the quiet environment of SpecStats.
MaxRows == 3

\* ------------------------------------------------------ program constants
\* action_basal = 0.05 (hundredths of a unit)
BasalRate == 5
\* action_bolus = 1.0 (hundredths of a unit)
BolusDose == 100
\* if bg < 70 (tenths of mg/dL)
LowThreshold == 700

\* ------------------------------------------------------ environment inputs
\* CGM readings the environment may report: 65.0, 70.0 and 100.1 mg/dL
\* (below, at and above the threshold; 100.1 is not a binary fraction).
CGMValues == {650, 700, 1001}
\* 'meal' values the environment may put in info (grams of carbohydrate).
MealValues == {-5, 0, 30}
\* reward returned by the environment; never read by the program.
RewardValues == {0}

\* dict.get(key, default)
Get(d, k, default) == IF k \in DOMAIN d THEN d[k] ELSE default

\* The info dict of one environment response.  'sample_time' is always
\* there; 'meal' and 'time' are optional (ms, ts hold at most one value).
InfoOf(ms, ts) ==
  [k \in {"sample_time"} \cup (IF ms = {} THEN {} ELSE {"meal"})
                         \cup (IF ts = {} THEN {} ELSE {"time"}) |->
     CASE k = "meal" -> CHOOSE m \in ms : TRUE
       [] k = "time" -> CHOOSE t \in ts : TRUE
       [] OTHER      -> 1]

\* Clock value the environment reports after n completed steps.
EnvTime(n) == 1000 + n

\* What the environment may do about 'meal' in one info dict: leave it
\* out, or set it to one of MealValues.
MealOptions == {{}} \cup {{m} : m \in MealValues}

\* All responses (obs, reward, done, info) the environment may give after n
\* completed steps; hasTime tells whether this environment reports 'time',
\* meals which of MealOptions its scenario uses.
EnvResponses(n, hasTime, meals) ==
  { [obs |-> [CGM |-> c], reward |-> r, done |-> d,
     info |-> InfoOf(ms, IF hasTime THEN {EnvTime(n)} ELSE {})] :
       c \in CGMValues, r \in RewardValues, d \in BOOLEAN,
       ms \in meals }

\* ------------------------------------------------------------- controller
\* SafetyBasalController.__init__
NewController(init_state) == [init_state |-> init_state]

\* Action(basal=..., bolus=...)
Action(basal, bolus) == [basal |-> basal, bolus |-> bolus]

\* Mutants of policy (plausible slips in the method).
policy_NoInterlock(self, observation, reward_, done_, kwargs) ==
  LET meal == Get(kwargs, "meal", 0)
      action_bolus == IF meal > 0 THEN BolusDose ELSE 0
  IN [action |-> Action(BasalRate, action_bolus), self |-> self,
      observation |-> observation,
      out |-> IF meal > 0 THEN <<"EVENT">> ELSE <<>>]

policy_InclusiveThreshold(self, observation, reward_, done_, kwargs) ==
  LET bg == observation.CGM
      meal == Get(kwargs, "meal", 0)
      action_bolus == IF meal > 0 THEN BolusDose ELSE 0
      action_basal == IF bg <= LowThreshold THEN 0 ELSE BasalRate
  IN [action |-> Action(action_basal, action_bolus), self |-> self,
      observation |-> observation,
      out |-> (IF meal > 0 THEN <<"EVENT">> ELSE <<>>)
              \o (IF bg <= LowThreshold THEN <<"ALERT">> ELSE <<>>)]

policy_SuspendBolus(self, observation, reward_, done_, kwargs) ==
  LET bg == observation.CGM
      meal == Get(kwargs, "meal", 0)
      action_bolus == IF meal > 0 /\ ~(bg < LowThreshold) THEN BolusDose ELSE 0
      action_basal == IF bg < LowThreshold THEN 0 ELSE BasalRate
  IN [action |-> Action(action_basal, action_bolus), self |-> self,
      observation |-> observation,
      out |-> (IF meal > 0 THEN <<"EVENT">> ELSE <<>>)
              \o (IF bg < LowThreshold THEN <<"ALERT">> ELSE <<>>)]

policy_SubtractBasal(self, observation, reward_, done_, kwargs) ==
  LET bg == observation.CGM
      meal == Get(kwargs, "meal", 0)
      action_bolus == IF meal > 0 THEN BolusDose ELSE 0
      action_basal == IF bg < LowThreshold THEN 0 - BasalRate ELSE BasalRate
  IN [action |-> Action(action_basal, action_bolus), self |-> self,
      observation |-> observation,
      out |-> (IF meal > 0 THEN <<"EVENT">> ELSE <<>>)
              \o (IF bg < LowThreshold THEN <<"ALERT">> ELSE <<>>)]

policy_Latch(self, observation, reward_, done_, kwargs) ==
  LET bg == observation.CGM
      meal == Get(kwargs, "meal", 0)
      suspended == bg < LowThreshold \/ self.init_state = 1
      action_bolus == IF meal > 0 THEN BolusDose ELSE 0
      action_basal == IF suspended THEN 0 ELSE BasalRate
  IN [action |-> Action(action_basal, action_bolus),
      self |-> IF suspended THEN [self EXCEPT !.init_state = 1] ELSE self,
      observation |-> observation,
      out |-> (IF meal > 0 THEN <<"EVENT">> ELSE <<>>)
              \o (IF suspended THEN <<"ALERT">> ELSE <<>>)]

policy_CountCalls(self, observation, reward_, done_, kwargs) ==
  LET bg == observation.CGM
      meal == Get(kwargs, "meal", 0)
      action_bolus == IF meal > 0 THEN BolusDose ELSE 0
      action_basal == IF bg < LowThreshold THEN 0 ELSE BasalRate
  IN [action |-> Action(action_basal, action_bolus),
      self |-> [self EXCEPT !.init_state = @ + 1],
      observation |-> observation,
      out |-> (IF meal > 0 THEN <<"EVENT">> ELSE <<>>)
              \o (IF bg < LowThreshold THEN <<"ALERT">> ELSE <<>>)]

\* SafetyBasalController.policy(observation, reward, done, **kwargs).
\* The result carries the returned Action, the controller object and the
\* observation object as the call leaves them, and the lines it printed.
policy(self, observation, reward_, done_, kwargs) ==
  LET bg == observation.CGM
      meal == Get(kwargs, "meal", 0)
      action_bolus == IF meal > 0 THEN BolusDose ELSE 0
      action_basal == IF bg < LowThreshold THEN 0 ELSE BasalRate
  IN [action |-> Action(action_basal, action_bolus), self |-> self,
      observation |-> observation,
      out |-> (IF meal > 0 THEN <<"EVENT">> ELSE <<>>)
              \o (IF bg < LowThreshold THEN <<"ALERT">> ELSE <<>>)]

\* ----------------------------------------------------------------- driver
\* The dict appended to records (lines 70-76): step is the loop index,
\* obs and info are the values bound when the dict is built.
MakeRecord(step, obs, info, action) ==
  [Time |-> Get(info, "time", step), CGM |-> obs.CGM,
   Meal |-> Get(info, "meal", 0),
   Insulin_Basal |-> action.basal, Insulin_Bolus |-> action.bolus]

\* What every local of run_headless_sim holds before it is first assigned.
NoObs == [CGM |-> 0]
NoInfo == InfoOf({}, {})
NoAction == Action(0, 0)
NoMean == [hi |-> 0, lo |-> 0]

\* Mutants of StepBody (plausible slips in lines 69-78).
StepBody_PreAction(l, resp) ==
  [l EXCEPT !.obs = resp.obs, !.reward = resp.reward, !.done = resp.done,
            !.info = resp.info,
            !.records = Append(l.records,
                               MakeRecord(l.step, l.obs, l.info, l.action)),
            !.brk = resp.done]

StepBody_BreakFirst(l, resp) ==
  [l EXCEPT !.obs = resp.obs, !.reward = resp.reward, !.done = resp.done,
            !.info = resp.info,
            !.records = IF resp.done THEN l.records
                        ELSE Append(l.records,
                               MakeRecord(l.step, resp.obs, resp.info, l.action)),
            !.brk = resp.done]

StepBody_AppendTwice(l, resp) ==
  LET row == MakeRecord(l.step, resp.obs, resp.info, l.action)
  IN [l EXCEPT !.obs = resp.obs, !.reward = resp.reward, !.done = resp.done,
               !.info = resp.info,
               !.records = IF Get(resp.info, "meal", 0) > 0
                           THEN Append(Append(l.records, row), row)
                           ELSE Append(l.records, row),
               !.brk = resp.done]

StepBody_InsertFront(l, resp) ==
  [l EXCEPT !.obs = resp.obs, !.reward = resp.reward, !.done = resp.done,
            !.info = resp.info,
            !.records = <<MakeRecord(l.step, resp.obs, resp.info, l.action)>>
                        \o l.records,
            !.brk = resp.done]

StepBody_NeverBreak(l, resp) ==
  [l EXCEPT !.obs = resp.obs, !.reward = resp.reward, !.done = resp.done,
            !.info = resp.info,
            !.records = Append(l.records,
                               MakeRecord(l.step, resp.obs, resp.info, l.action)),
            !.brk = FALSE]

\* Lines 69-78 of one loop iteration, given the environment's response to
\* env.step(action): rebind obs, reward, done, info, append the row, and
\* decide whether to break.  l holds the locals of run_headless_sim.
StepBody(l, resp) ==
  [l EXCEPT !.obs = resp.obs, !.reward = resp.reward, !.done = resp.done,
            !.info = resp.info,
            !.records = Append(l.records,
                               MakeRecord(l.step, resp.obs, resp.info, l.action)),
            !.brk = resp.done]

\* ------------------------------------------------------ float64 values
\* A float64 x >= 0 is held as the integer x * 2^46 in two limbs,
\* hi * 2^28 + lo with 0 <= lo < 2^28: every float64 in [64, 128) has 52
\* fraction bits and so is a whole number of 2^-46, and so are the sums of
\* such values.  The readings of the model lie in [64.0, 128.0) mg/dL and
\* at most 7 of them are summed, which keeps hi below 2^28.
Limb == 268435456

F64Norm(hi, lo) == [hi |-> hi + lo \div Limb, lo |-> lo % Limb]

\* The float64 nearest to t/10, for 640 <= t < 1280: t * 2^46 / 10 =
\* (t * 2^17) * 2^28 / 5, rounded to the nearest integer (no ties: 5 is odd).
F64(t) ==
  LET hi0 == t * 131072
      r1 == hi0 % 5
      r2 == (r1 * Limb) % 5
  IN F64Norm(hi0 \div 5,
             (r1 * Limb) \div 5 + (IF 2 * r2 > 5 THEN 1 ELSE 0))

\* Round an exact value to float64 (53 significant bits), to nearest, ties
\* to even: below 2^53 every integer is a float64, from 2^53 on only every
\* second one, from 2^54 every fourth, from 2^55 every eighth.
FRound(x) ==
  LET u == IF x.hi < 33554432 THEN 1
           ELSE IF x.hi < 67108864 THEN 2
           ELSE IF x.hi < 134217728 THEN 4 ELSE 8
      r == x.lo % u
      up == 2 * r > u \/ (2 * r = u /\ (x.lo \div u) % 2 = 1)
  IN F64Norm(x.hi, x.lo - r + (IF up THEN u ELSE 0))

\* float64 x + y: the exact sum, then rounded.
FAdd(x, y) ==
  CHOOSE res \in { FRound(exact) :
                     exact \in {F64Norm(x.hi + y.hi, x.lo + y.lo)} } : TRUE

\* float64 x / n for a count 1 <= n <= 7, with the quotient in [64, 128):
\* long division over the limbs, rounded to nearest, ties to even.
FDiv(x, n) ==
  LET r1 == x.hi % n
      t == r1 * Limb + x.lo
      q == t \div n
      r2 == t % n
      up == 2 * r2 > n \/ (2 * r2 = n /\ q % 2 = 1)
  IN F64Norm(x.hi \div n, q + (IF up THEN 1 ELSE 0))

\* float64 x <= y.
FLeq(x, y) == x.hi < y.hi \/ (x.hi = y.hi /\ x.lo <= y.lo)

\* results['CGM'] and its aggregates (lines 83-85).
\* The sum .mean() accumulates: values added one by one, left to right,
\* each addition rounded (the order numpy and bottleneck use for fewer
\* than 8 values).  acc is the accumulator and a the value added.
RECURSIVE SumSeq(_)
SumSeq(s) ==
  IF s = <<>> THEN F64Norm(0, 0)
  ELSE CHOOSE res \in { FAdd(acc, a) :
                          acc \in {SumSeq(SubSeq(s, 1, Len(s) - 1))},
                          a \in {F64(s[Len(s)])} } : TRUE

Column(records_, name) == [i \in 1..Len(records_) |-> records_[i][name]]

\* Mutant of SeqMin: the first value instead of the smallest.
SeqMin_First(s) == s[1]

SeqMin(s) == CHOOSE x \in {s[i] : i \in 1..Len(s)} :
               \A j \in 1..Len(s) : x <= s[j]
SeqMax(s) == CHOOSE x \in {s[i] : i \in 1..Len(s)} :
               \A j \in 1..Len(s) : x >= s[j]
\* Series.mean(): the rounded sum divided by the count, rounded again.
SeqMean(s) ==
  CHOOSE the_mean \in { FDiv(the_sum, Len(s)) : the_sum \in {SumSeq(s)} } : TRUE

VARIABLES
  pc,          \* position in run_headless_sim
  sim_steps,   \* the step budget
  step,        \* the loop index, bound by the for statement
  range_it,    \* the next index the iterator of range(sim_steps) yields
  obs, reward, done, info,   \* the last environment response, as bound
  action,      \* the last Action returned by the controller
  records,     \* the list of row dicts
  controller,  \* the SafetyBasalController object
  mean_bg, min_bg, max_bg,
  console,     \* lines printed so far (by kind)
  csv_writes,  \* tables written to sim_results_summary.csv, in order
  error,       \* the exception that ended the run, "" if none
  envHasTime,  \* whether this environment puts 'time' in info
  envMeals,    \* the choices of MealOptions this environment's scenario uses
  envSteps,    \* env.step calls the environment has completed
  calls,       \* history: every controller.policy call and its result
  applied,     \* history: every Action passed to env.step
  responses,   \* history: every environment response (reset first)
  trace,       \* history: the calls made, "reset", "policy" or "step"
  run,         \* 1 in the first invocation, 2 in a re-invocation
  prev         \* what the first invocation left, for the second

vars == <<pc, sim_steps, step, range_it, obs, reward, done, info, action, records,
          controller, mean_bg, min_bg, max_bg, console, csv_writes, error,
          envHasTime, envMeals, envSteps, calls, applied, responses, trace,
          run, prev>>

drv == <<step, range_it, obs, reward, done, info, action, records,
         controller>>
stats == <<mean_bg, min_bg, max_bg>>
hist == <<calls, applied, responses>>
rerun == <<run, prev>>

\* prev before any invocation has ended.
NoPrev == [records |-> <<>>, responses |-> <<>>, applied |-> <<>>,
           error |-> ""]

\* The environment is deterministic: built again with the same seeds and
\* given the same actions as in the first invocation, it answers as it did
\* then.  acts is the sequence of actions it has been given so far.
Replaying(acts) ==
  run = 2 /\ Len(acts) <= Len(prev.applied)
          /\ acts = SubSeq(prev.applied, 1, Len(acts))

\* The responses the environment may give to its n-th step call (n = 0:
\* to reset), after the actions acts.
EnvReplies(n, acts) ==
  IF Replaying(acts)
  THEN (IF n + 1 <= Len(prev.responses) THEN {prev.responses[n + 1]} ELSE {})
  ELSE EnvResponses(n, envHasTime, envMeals)

\* Whether that call may raise instead.
EnvMayFail(n, acts) ==
  Replaying(acts) => n + 1 > Len(prev.responses)

Init ==
  /\ pc = "start"
  /\ sim_steps \in 0..MaxSteps
  /\ envHasTime \in BOOLEAN
  /\ envMeals = MealOptions
  /\ step = 0 /\ range_it = 0
  /\ obs = NoObs /\ reward = 0 /\ done = FALSE /\ info = NoInfo
  /\ action = NoAction
  /\ records = <<>>
  /\ controller = NewController(0)
  /\ mean_bg = NoMean /\ min_bg = 0 /\ max_bg = 0
  /\ console = <<>> /\ csv_writes = <<>> /\ error = ""
  /\ envSteps = 0
  /\ calls = <<>> /\ applied = <<>> /\ responses = <<>>
  /\ trace = <<>>
  /\ run = 1 /\ prev = NoPrev

\* The program started with a longer budget against a quiet environment:
\* one whose scenario has no meal (info carries meal = 0) and whose info
\* has no 'time'.
InitStats ==
  /\ pc = "start"
  /\ sim_steps \in 0..MaxRows
  /\ envHasTime = FALSE
  /\ envMeals = {{0}}
  /\ step = 0 /\ range_it = 0
  /\ obs = NoObs /\ reward = 0 /\ done = FALSE /\ info = NoInfo
  /\ action = NoAction
  /\ records = <<>>
  /\ controller = NewController(0)
  /\ mean_bg = NoMean /\ min_bg = 0 /\ max_bg = 0
  /\ console = <<>> /\ csv_writes = <<>> /\ error = ""
  /\ envSteps = 0
  /\ calls = <<>> /\ applied = <<>> /\ responses = <<>>
  /\ trace = <<>>
  /\ run = 1 /\ prev = NoPrev

\* Mutant of Reset: the list of rows is not emptied (line 64 missing, the
\* list living outside the function).
Reset_KeepRecords ==
  /\ pc = "start"
  /\ \E resp \in EnvReplies(0, <<>>) :
       /\ obs' = resp.obs /\ reward' = resp.reward
       /\ done' = resp.done /\ info' = resp.info
       /\ responses' = Append(responses, resp)
  /\ controller' = NewController(0)
  /\ records' = records
  /\ range_it' = 0
  /\ console' = Append(console, "Starting")
  /\ trace' = Append(trace, "reset")
  /\ pc' = "loop"
  /\ UNCHANGED <<sim_steps, step, action, stats, csv_writes, error,
                 envHasTime, envMeals, envSteps, calls, applied, rerun>>

\* Lines 42-64: set-up, banner, env.reset(), records = []; then the for
\* statement (line 66) builds the iterator of range(sim_steps).  step is
\* not bound here: the for statement binds it when an iteration starts.
Reset ==
  /\ pc = "start"
  /\ \E resp \in EnvReplies(0, <<>>) :
       /\ obs' = resp.obs /\ reward' = resp.reward
       /\ done' = resp.done /\ info' = resp.info
       /\ responses' = Append(responses, resp)
  /\ controller' = NewController(0)
  /\ records' = <<>>
  /\ range_it' = 0
  /\ console' = Append(console, "Starting")
  /\ trace' = Append(trace, "reset")
  /\ pc' = "loop"
  /\ UNCHANGED <<sim_steps, step, action, stats, csv_writes, error,
                 envHasTime, envMeals, envSteps, calls, applied, rerun>>

\* env.reset() raises (line 63).
ResetFail ==
  /\ pc = "start"
  /\ EnvMayFail(0, <<>>)
  /\ console' = Append(console, "Starting")
  /\ trace' = Append(trace, "reset")
  /\ error' = "EnvironmentError"
  /\ pc' = "failed"
  /\ UNCHANGED <<sim_steps, drv, stats, csv_writes,
                 envHasTime, envMeals, envSteps,
                 hist, rerun>>

\* Mutants of PolicyCall: the meal is read under a key the environment
\* never sets; the policy is called twice per iteration.
PolicyCall_WrongKey ==
  /\ pc = "loop"
  /\ range_it < sim_steps
  /\ step' = range_it
  /\ range_it' = range_it + 1
  /\ LET kwargs == [meal |-> Get(info, "carbs", 0)]
         r == policy(controller, obs, reward, done, kwargs)
     IN /\ action' = r.action
        /\ controller' = r.self
        /\ obs' = r.observation
        /\ console' = console \o r.out
        /\ calls' = Append(calls, [self |-> controller, observation |-> obs,
                                   reward |-> reward, done |-> done,
                                   kwargs |-> kwargs, result |-> r])
  /\ trace' = Append(trace, "policy")
  /\ pc' = "step"
  /\ UNCHANGED <<sim_steps, reward, done, info, records, stats,
                 csv_writes, error,
                 envHasTime, envMeals, envSteps, applied, responses,
                 rerun>>

PolicyCall_Twice ==
  /\ pc = "loop"
  /\ range_it < sim_steps
  /\ step' = range_it
  /\ range_it' = range_it + 1
  /\ LET kwargs == [meal |-> Get(info, "meal", 0)]
         r == policy(controller, obs, reward, done, kwargs)
         c == [self |-> controller, observation |-> obs,
               reward |-> reward, done |-> done,
               kwargs |-> kwargs, result |-> r]
     IN /\ action' = r.action
        /\ controller' = r.self
        /\ obs' = r.observation
        /\ console' = console \o r.out \o r.out
        /\ calls' = Append(Append(calls, c), c)
  /\ trace' = Append(Append(trace, "policy"), "policy")
  /\ pc' = "step"
  /\ UNCHANGED <<sim_steps, reward, done, info, records, stats,
                 csv_writes, error,
                 envHasTime, envMeals, envSteps, applied, responses,
                 rerun>>

\* Lines 66-68: the for statement binds step to the next index of the
\* iterator, the meal is read from info and the controller is asked for
\* an action.
PolicyCall ==
  /\ pc = "loop"
  /\ range_it < sim_steps
  /\ step' = range_it
  /\ range_it' = range_it + 1
  /\ LET kwargs == [meal |-> Get(info, "meal", 0)]
         r == policy(controller, obs, reward, done, kwargs)
     IN /\ action' = r.action
        /\ controller' = r.self
        /\ obs' = r.observation
        /\ console' = console \o r.out
        /\ calls' = Append(calls, [self |-> controller, observation |-> obs,
                                   reward |-> reward, done |-> done,
                                   kwargs |-> kwargs, result |-> r])
  /\ trace' = Append(trace, "policy")
  /\ pc' = "step"
  /\ UNCHANGED <<sim_steps, reward, done, info, records, stats,
                 csv_writes, error,
                 envHasTime, envMeals, envSteps, applied, responses,
                 rerun>>

\* Line 66: range(sim_steps) is exhausted.
LoopExhausted ==
  /\ pc = "loop"
  /\ range_it = sim_steps
  /\ pc' = "stats"
  /\ UNCHANGED <<sim_steps, drv, stats, console, csv_writes, error,
                 envHasTime, envMeals, envSteps, hist, trace, rerun>>

\* Lines 69-78: env.step(action) returns, the row is appended, break on done.
EnvStep ==
  /\ pc = "step"
  /\ \E resp \in EnvReplies(envSteps + 1, Append(applied, action)) :
       LET l == [step |-> step, obs |-> obs, reward |-> reward,
                 done |-> done, info |-> info, action |-> action,
                 records |-> records, brk |-> FALSE]
           n == StepBody(l, resp)
       IN /\ obs' = n.obs /\ reward' = n.reward
          /\ done' = n.done /\ info' = n.info
          /\ records' = n.records
          /\ responses' = Append(responses, resp)
          /\ pc' = (IF n.brk THEN "stats" ELSE "loop")
  /\ applied' = Append(applied, action)
  /\ envSteps' = envSteps + 1
  /\ trace' = Append(trace, "step")
  /\ UNCHANGED <<sim_steps, step, range_it, action, controller, stats,
                 console, csv_writes, error,
                 envHasTime, envMeals, calls, rerun>>

\* Mutant of EnvStepFail: the exception of env.step is caught and the loop
\* is left as if by break.
EnvStepFail_Swallowed ==
  /\ pc = "step"
  /\ EnvMayFail(envSteps + 1, Append(applied, action))
  /\ applied' = Append(applied, action)
  /\ trace' = Append(trace, "step")
  /\ error' = "EnvironmentError"
  /\ pc' = "stats"
  /\ UNCHANGED <<sim_steps, drv, stats, console, csv_writes,
                 envHasTime, envMeals,
                 envSteps, calls, responses, rerun>>

\* env.step(action) raises (line 69).
EnvStepFail ==
  /\ pc = "step"
  /\ EnvMayFail(envSteps + 1, Append(applied, action))
  /\ applied' = Append(applied, action)
  /\ trace' = Append(trace, "step")
  /\ error' = "EnvironmentError"
  /\ pc' = "failed"
  /\ UNCHANGED <<sim_steps, drv, stats, console, csv_writes,
                 envHasTime, envMeals,
                 envSteps, calls, responses, rerun>>

\* Mutant of Report: an empty table is aggregated to zeros and reported.
Report_EmptyAsZero ==
  /\ pc = "stats"
  /\ IF records = <<>>
     THEN mean_bg' = NoMean /\ min_bg' = 0 /\ max_bg' = 0
     ELSE /\ mean_bg' = SeqMean(Column(records, "CGM"))
          /\ min_bg' = SeqMin(Column(records, "CGM"))
          /\ max_bg' = SeqMax(Column(records, "CGM"))
  /\ console' = Append(console, "REPORT")
  /\ pc' = "save"
  /\ UNCHANGED <<sim_steps, drv, csv_writes, error,
                 envHasTime, envMeals, envSteps,
                 hist, trace, rerun>>

\* Lines 80-92: build the DataFrame, aggregate the CGM column, print the
\* report.  A DataFrame built from an empty list has no 'CGM' column, so
\* results['CGM'] raises KeyError.
Report ==
  /\ pc = "stats"
  /\ IF records = <<>>
     THEN /\ error' = "KeyError"
          /\ pc' = "failed"
          /\ UNCHANGED <<stats, console>>
     ELSE /\ mean_bg' = SeqMean(Column(records, "CGM"))
          /\ min_bg' = SeqMin(Column(records, "CGM"))
          /\ max_bg' = SeqMax(Column(records, "CGM"))
          /\ console' = Append(console, "REPORT")
          /\ pc' = "save"
          /\ UNCHANGED error
  /\ UNCHANGED <<sim_steps, drv, csv_writes,
                 envHasTime, envMeals, envSteps, hist,
                 trace, rerun>>

\* Mutant of Save: only the head of the table is written.
Save_Head ==
  /\ pc = "save"
  /\ csv_writes' = Append(csv_writes, SubSeq(records, 1, 1))
  /\ console' = Append(console, "Saved")
  /\ pc' = "done"
  /\ UNCHANGED <<sim_steps, drv, stats, error,
                 envHasTime, envMeals, envSteps, hist,
                 trace, rerun>>

\* Lines 95-96: results.to_csv(...) and the confirmation line.
Save ==
  /\ pc = "save"
  /\ csv_writes' = Append(csv_writes, records)
  /\ console' = Append(console, "Saved")
  /\ pc' = "done"
  /\ UNCHANGED <<sim_steps, drv, stats, error,
                 envHasTime, envMeals, envSteps, hist,
                 trace, rerun>>

\* Lines 98-99 run again: run_headless_sim is invoked a second time, with a
\* freshly built environment (same patient, same seeds) and the same
\* budget.  What the first invocation recorded is kept in prev; the names
\* bound by the first invocation keep their values until rebound.
Rerun ==
  /\ run = 1
  /\ pc \in {"done", "failed"}
  /\ prev' = [records |-> records, responses |-> responses,
              applied |-> applied, error |-> error]
  /\ run' = 2
  /\ pc' = "start"
  /\ error' = ""
  /\ envSteps' = 0
  /\ calls' = <<>> /\ applied' = <<>> /\ responses' = <<>>
  /\ trace' = <<>>
  /\ UNCHANGED <<sim_steps, drv, stats, console, csv_writes, envHasTime, envMeals>>

Next ==
  \/ Reset
  \/ ResetFail
  \/ PolicyCall
  \/ LoopExhausted
  \/ EnvStep
  \/ EnvStepFail
  \/ Report
  \/ Save

Spec == Init /\ [][Next]_vars

\* The program is one synchronous thread: whenever a next statement exists
\* it is executed (every call of the environment returns or raises).
FairSpec == Spec /\ WF_vars(Next)

\* The program invoked once and then once more.
NextRerun == Next \/ Rerun
SpecRerun == Init /\ [][NextRerun]_vars

\* The program run against the quiet environment, for up to MaxRows steps.
SpecStats == InitStats /\ [][Next]_vars

TypeOK ==
  /\ pc \in {"start", "loop", "step", "stats", "save", "done", "failed"}
  /\ sim_steps \in 0..MaxSteps \cup 0..MaxRows
  /\ step \in 0..sim_steps
  /\ Len(records) <= sim_steps

\* ------------------------------------------------------------ properties
\* In the formulas below a CGM reading is in tenths of mg/dL (700 is 70.0,
\* 650 is 65.0) and insulin in hundredths of a unit (5 is 0.05, 100 is 1.0).
CallIdx == 1..Len(calls)
CallBG(i) == calls[i].observation.CGM
CallMeal(i) == calls[i].kwargs.meal
CallAction(i) == calls[i].result.action
\* The loop of run_headless_sim is over (normally, not by an exception
\* of the environment).
LoopEnded == pc \in {"stats", "save", "done"}
             \/ (pc = "failed" /\ error = "KeyError")
\* The response to the k-th env.step call (k >= 1); responses[1] is reset's.
StepResp(k) == responses[k + 1]

\* C1: every policy call whose observation CGM is below 70 returns basal
\* exactly 0, whatever the meal value.
C1_LowGlucoseSuspendsBasal ==
  \A i \in CallIdx : CallBG(i) < 700 => CallAction(i).basal = 0

\* A call below the threshold with a meal, and one without, have happened.
C1_Witness ==
  /\ \E i \in CallIdx : CallBG(i) < 700 /\ CallMeal(i) > 0
                        /\ CallAction(i).basal = 0
  /\ \E i \in CallIdx : CallBG(i) < 700 /\ CallMeal(i) = 0

\* C2: every policy call whose observation CGM is >= 70 (70 included)
\* returns basal equal to the baseline constant 0.05 (5 hundredths).
C2_BaselineAtOrAboveThreshold ==
  \A i \in CallIdx : CallBG(i) >= 700 => CallAction(i).basal = 5

\* Calls at exactly 70 and above 70 have happened, with and without a meal.
C2_Witness ==
  /\ \E i \in CallIdx : CallBG(i) = 700 /\ CallMeal(i) > 0
                        /\ CallAction(i).basal = 5
  /\ \E i \in CallIdx : CallBG(i) > 700 /\ CallMeal(i) = 0

\* C3: every policy call returns bolus 1.0 (100 hundredths) when meal > 0
\* and bolus 0 when meal = 0, for every observation, suspended or not.
C3_BolusFollowsMeal ==
  \A i \in CallIdx :
    /\ CallMeal(i) > 0 => CallAction(i).bolus = 100
    /\ CallMeal(i) = 0 => CallAction(i).bolus = 0

\* A suspended call (CGM < 70) with a meal got the full bolus, and a call
\* without a meal got none.
C3_Witness ==
  /\ \E i \in CallIdx : CallBG(i) < 700 /\ CallMeal(i) > 0
                        /\ CallAction(i).bolus = 100
  /\ \E i \in CallIdx : CallBG(i) >= 700 /\ CallMeal(i) = 0
                        /\ CallAction(i).bolus = 0

\* C4: every Action the policy produces for a meal >= 0, every Action
\* passed to env.step for such a call, and every Insulin_Basal and
\* Insulin_Bolus recorded for it, is non-negative.
C4_ActionsNonNegative ==
  \A i \in CallIdx : CallMeal(i) >= 0 =>
    /\ CallAction(i).basal >= 0 /\ CallAction(i).bolus >= 0
    /\ i <= Len(applied) => applied[i].basal >= 0 /\ applied[i].bolus >= 0
    /\ i <= Len(records) => /\ records[i].Insulin_Basal >= 0
                            /\ records[i].Insulin_Bolus >= 0

\* A suspended action and a bolus action were produced, applied and recorded.
C4_Witness ==
  /\ Len(records) >= 2
  /\ \E i \in 1..Len(records) : CallBG(i) < 700 /\ CallMeal(i) = 0
                                /\ applied[i] = CallAction(i)
  /\ \E i \in 1..Len(records) : CallMeal(i) > 0 /\ records[i].Insulin_Bolus > 0

\* C5: the policy is memoryless: two calls with the same (observation,
\* meal) return the same Action whatever came before; a call with CGM >= 70
\* right after one with CGM < 70 returns the full baseline, and a call with
\* meal = 0 right after one with meal > 0 returns bolus 0.
C5_Memoryless ==
  /\ \A i, j \in CallIdx :
       (CallBG(i) = CallBG(j) /\ CallMeal(i) = CallMeal(j))
         => CallAction(i) = CallAction(j)
  /\ \A i \in CallIdx : (i > 1 /\ CallBG(i - 1) < 700 /\ CallBG(i) >= 700)
         => CallAction(i).basal = 5
  /\ \A i \in CallIdx : (i > 1 /\ CallMeal(i - 1) > 0 /\ CallMeal(i) = 0)
         => CallAction(i).bolus = 0

\* A suspended call with a meal was directly followed by a call at or above
\* the threshold without a meal, which got the full baseline and no bolus.
C5_Witness ==
  \E i \in CallIdx :
    /\ i + 1 <= Len(calls)
    /\ CallBG(i) < 700 /\ CallMeal(i) > 0
    /\ CallBG(i + 1) >= 700 /\ CallMeal(i + 1) = 0
    /\ CallAction(i + 1) = Action(5, 0)

\* C6: in every reachable state the number of records equals the number of
\* completed env.step calls and never exceeds the step budget.
C6_OneRecordPerStep ==
  /\ Len(records) = envSteps
  /\ Len(records) <= sim_steps

\* Two steps completed, one of them reporting a meal.
C6_Witness ==
  /\ envSteps >= 2 /\ Len(records) = envSteps
  /\ \E k \in 1..envSteps : Get(StepResp(k).info, "meal", 0) > 0

\* C7: with budget N and an environment that never signals termination and
\* never fails, the loop ends with exactly N records in chronological
\* order: the i-th record (0-based) belongs to loop step i (Time = i when
\* the environment supplies no time, else the time of that step's response)
\* and carries the action applied in that step.
C7_FullBudgetInOrder ==
  (LoopEnded /\ \A k \in 1..Len(responses) : ~responses[k].done) =>
    /\ Len(records) = sim_steps
    /\ \A i \in 0..(Len(records) - 1) :
         /\ records[i + 1].Time = Get(StepResp(i + 1).info, "time", i)
         /\ ~envHasTime => records[i + 1].Time = i
         /\ records[i + 1].Insulin_Basal = applied[i + 1].basal
         /\ records[i + 1].Insulin_Bolus = applied[i + 1].bolus

\* A run of at least two steps without termination has finished, in an
\* environment that supplies no time.
C7_Witness ==
  /\ pc = "done" /\ sim_steps >= 2 /\ ~envHasTime
  /\ \A k \in 1..Len(responses) : ~responses[k].done
  /\ Len(records) = sim_steps

\* C8: with budget N, if the response to the k-th env.step call (k < N) is
\* the first step response with done = true, the loop is over and exactly
\* k records exist.
C8_EarlyTerminationCount ==
  \A k \in 1..(sim_steps - 1) :
    (/\ Len(responses) >= k + 1
     /\ StepResp(k).done
     /\ \A j \in 1..(k - 1) : ~StepResp(j).done)
    => (pc \notin {"loop", "step"} /\ Len(records) = k)

\* A run ended after a step before the last of its budget signalled done.
C8_Witness ==
  /\ pc = "done"
  /\ \E k \in 1..(sim_steps - 1) :
       /\ Len(responses) = k + 1 /\ StepResp(k).done
       /\ \A j \in 1..(k - 1) : ~StepResp(j).done
       /\ Len(records) = k

\* C9 as stated: each record holds the CGM and meal that were given to the
\* controller when it decided that record's action, and that action.
C9_RecordsPreAction ==
  \A i \in 1..Len(records) :
    /\ records[i].CGM = CallBG(i)
    /\ records[i].Meal = CallMeal(i)
    /\ records[i].Insulin_Basal = CallAction(i).basal
    /\ records[i].Insulin_Bolus = CallAction(i).bolus

\* C9 amended: each record holds the CGM and meal of the response to the
\* env.step call that applied that record's action (the post-action
\* values), together with the action the controller decided for that step.
C9_RecordsPostAction ==
  \A i \in 1..Len(records) :
    /\ records[i].CGM = StepResp(i).obs.CGM
    /\ records[i].Meal = Get(StepResp(i).info, "meal", 0)
    /\ records[i].Insulin_Basal = CallAction(i).basal
    /\ records[i].Insulin_Bolus = CallAction(i).bolus

\* A record whose CGM and meal differ from what the controller was given.
C9_Witness ==
  \E i \in 1..Len(records) :
    /\ records[i].CGM # CallBG(i)
    /\ records[i].Meal # CallMeal(i)
    /\ records[i].CGM = StepResp(i).obs.CGM

\* C10 as stated: when reset returns done = true the run performs no step,
\* ends with the EmptyResult error and writes no output file.
C10_ResetDoneRaisesEmptyResult ==
  (Len(responses) >= 1 /\ responses[1].done) =>
    /\ calls = <<>> /\ applied = <<>> /\ envSteps = 0
    /\ csv_writes = <<>>
    /\ pc \in {"done", "failed"} => error = "EmptyResult"

\* A line of the given kind has been printed.
Printed(kind) == \E i \in 1..Len(console) : console[i] = kind

\* C11: with a step budget of 0 no record exists, and the run ends in an
\* error instead of aggregating the empty table: no statistics are
\* computed, no report is printed and no file is written.
C11_ZeroBudgetFails ==
  sim_steps = 0 =>
    /\ records = <<>>
    /\ pc \notin {"save", "done"}
    /\ mean_bg = NoMean /\ min_bg = 0 /\ max_bg = 0
    /\ ~Printed("REPORT") /\ ~Printed("Saved")
    /\ csv_writes = <<>>
    /\ (pc = "failed" => error # "")

\* A run with budget 0 got its reset response and then failed on the
\* empty table.
C11_Witness ==
  /\ sim_steps = 0 /\ Len(responses) = 1
  /\ pc = "failed" /\ error = "KeyError"

\* C12: when env.reset or env.step fails, the run is over at once with that
\* failure: no further policy call or step is possible, no report is
\* printed and no file is written, even if records were already appended.
C12_EnvFailureAborts ==
  error = "EnvironmentError" =>
    /\ pc = "failed"
    /\ ~ENABLED Next
    /\ ~Printed("REPORT") /\ ~Printed("Saved")
    /\ mean_bg = NoMean
    /\ csv_writes = <<>>

\* env.step failed after a record had already been appended.
C12_Witness ==
  /\ error = "EnvironmentError" /\ pc = "failed"
  /\ Len(records) >= 1 /\ Len(applied) = Len(records) + 1

\* C13 as stated: a negative meal value given to the controller is
\* rejected: the run is aborted with a ValidationError and no Action for
\* that call is applied to the environment.
C13_NegativeMealRejected ==
  \A i \in CallIdx : CallMeal(i) < 0 =>
    /\ pc = "failed" /\ error = "ValidationError"
    /\ Len(applied) < i

\* C14: a second invocation with a fresh, deterministic environment (same
\* responses to the same actions), a fresh controller and the same budget
\* reproduces the first invocation's records: after every step of the
\* second run its records equal the first run's records up to that step,
\* and it ends with the identical sequence and the same outcome.
C14_RerunReproducesRecords ==
  (run = 2 /\ pc # "start") =>
    /\ Len(records) = envSteps
    /\ Len(records) <= Len(prev.records)
    /\ \A i \in 1..Len(records) : records[i] = prev.records[i]
    /\ pc \in {"done", "failed"}
         => (records = prev.records /\ error = prev.error)

\* The second invocation has finished after two steps with the first
\* invocation's two records.
C14_Witness ==
  /\ run = 2 /\ pc = "done"
  /\ Len(records) = 2 /\ records = prev.records
  /\ records[1] # records[2]

\* After the first step response with done = true nothing more is decided
\* or stepped, and the loop is left before the budget is used up only if
\* the last step response carried done = true.
C15_ExitOnlyOnDone ==
  /\ \A k \in 1..envSteps : StepResp(k).done =>
       /\ k = envSteps
       /\ pc \notin {"loop", "step"}
       /\ Len(calls) = k /\ Len(applied) = k
  /\ (LoopEnded /\ envSteps < sim_steps) =>
       (envSteps >= 1 /\ StepResp(envSteps).done)
  /\ Len(applied) <= sim_steps /\ Len(calls) <= sim_steps

\* C15: the loop exits before exhausting the budget if and only if a step
\* response carried done = true, after which no further policy call or
\* env.step call occurs; every run that does not fail in the environment
\* reaches the end of the loop, within sim_steps step calls.
C15_LoopTermination ==
  /\ []C15_ExitOnlyOnDone
  /\ <>(LoopEnded \/ error = "EnvironmentError")

\* The loop was left after its first step, whose response carried done,
\* with budget to spare, and the run went on to its end.
C15_Witness ==
  /\ pc = "done" /\ envSteps = 1 /\ envSteps < sim_steps
  /\ StepResp(1).done /\ Len(calls) = 1

\* C16: the output file is written exactly once per successful run, after
\* the loop has ended and the statistics were computed and reported; no
\* write happens before, and the written table is the full list of records
\* in order.
C16_SingleFinalWrite ==
  /\ pc # "done" => (csv_writes = <<>> /\ ~Printed("Saved"))
  /\ pc = "done" =>
       /\ Len(csv_writes) = 1
       /\ csv_writes[1] = records
       /\ Len(csv_writes[1]) = envSteps
       /\ Printed("REPORT")
       /\ mean_bg = SeqMean(Column(records, "CGM"))
       /\ error = ""

\* A successful run of two steps has written its two records.
C16_Witness ==
  /\ pc = "done" /\ Len(records) = 2
  /\ Len(csv_writes) = 1 /\ Len(csv_writes[1]) = 2

\* The meal value of environment response k (responses[1] is reset's).
RespMeal(k) == Get(responses[k].info, "meal", 0)

\* C17: the observation and the meal passed to the controller at each
\* iteration are those of the most recent environment response; with a
\* meal > 0 only in the response available before the first decision and
\* CGM always >= 70, the bolus is 1.0 on step 0 only and 0 afterwards, with
\* basal 0.05 on every step.
C17_MealFromLatestResponse ==
  /\ \A i \in CallIdx :
       /\ calls[i].observation = responses[i].obs
       /\ CallMeal(i) = RespMeal(i)
  /\ (/\ Len(responses) >= 1 /\ RespMeal(1) > 0
      /\ \A k \in 2..Len(responses) : RespMeal(k) = 0
      /\ \A k \in 1..Len(responses) : responses[k].obs.CGM >= 700)
     => /\ \A i \in CallIdx :
             CallAction(i) = Action(5, IF i = 1 THEN 100 ELSE 0)
        /\ \A i \in 1..Len(applied) :
             applied[i] = Action(5, IF i = 1 THEN 100 ELSE 0)
        /\ \A i \in 1..Len(records) :
             /\ records[i].Insulin_Basal = 5
             /\ records[i].Insulin_Bolus = (IF i = 1 THEN 100 ELSE 0)

\* The scenario has run for two steps: meal only before the first decision,
\* CGM never below 70.
C17_Witness ==
  /\ pc = "done" /\ Len(records) = 2
  /\ RespMeal(1) > 0
  /\ \A k \in 2..Len(responses) : RespMeal(k) = 0
  /\ \A k \in 1..Len(responses) : responses[k].obs.CGM >= 700
  /\ records[1].Insulin_Bolus = 100 /\ records[2].Insulin_Bolus = 0

\* The reading t (tenths of mg/dL) is a whole number of mg/dL.
WholeReading(t) == t % 10 = 0

\* C18 as stated: after a successful run min_bg and max_bg are values of
\* the recorded CGM column, min_bg <= every recorded CGM <= max_bg and
\* min_bg <= mean_bg <= max_bg; with an environment that always returns
\* CGM 65 and meal 0 every record has basal 0 and bolus 0 and mean, min and
\* max are all 65.
C18_StatisticsBoundTheColumn ==
  pc \in {"save", "done"} =>
    /\ \E i \in 1..Len(records) : records[i].CGM = min_bg
    /\ \E i \in 1..Len(records) : records[i].CGM = max_bg
    /\ \A i \in 1..Len(records) :
         min_bg <= records[i].CGM /\ records[i].CGM <= max_bg
    /\ FLeq(F64(min_bg), mean_bg) /\ FLeq(mean_bg, F64(max_bg))
    /\ (\A k \in 1..Len(responses) :
          responses[k].obs.CGM = 650 /\ RespMeal(k) = 0)
       => /\ \A i \in 1..Len(records) :
               records[i].Insulin_Basal = 0 /\ records[i].Insulin_Bolus = 0
          /\ min_bg = 650 /\ max_bg = 650
          /\ mean_bg = F64(650)

\* C18 amended: after a successful run min_bg and max_bg are values of the
\* recorded CGM column and min_bg <= every recorded CGM <= max_bg; mean_bg
\* is the float64 mean of the column, and min_bg <= mean_bg <= max_bg holds
\* when every recorded CGM is a whole number (the float64 sum is then
\* exact); with an environment that always returns CGM 65 and meal 0 every
\* record has basal 0 and bolus 0 and mean, min and max are all 65.
C18_StatisticsOfTheColumn ==
  pc \in {"save", "done"} =>
    /\ \E i \in 1..Len(records) : records[i].CGM = min_bg
    /\ \E i \in 1..Len(records) : records[i].CGM = max_bg
    /\ \A i \in 1..Len(records) :
         min_bg <= records[i].CGM /\ records[i].CGM <= max_bg
    /\ mean_bg = SeqMean(Column(records, "CGM"))
    /\ (\A i \in 1..Len(records) : WholeReading(records[i].CGM))
       => (FLeq(F64(min_bg), mean_bg) /\ FLeq(mean_bg, F64(max_bg)))
    /\ (\A k \in 1..Len(responses) :
          responses[k].obs.CGM = 650 /\ RespMeal(k) = 0)
       => /\ \A i \in 1..Len(records) :
               records[i].Insulin_Basal = 0 /\ records[i].Insulin_Bolus = 0
          /\ min_bg = 650 /\ max_bg = 650
          /\ mean_bg = F64(650)

\* A successful run recorded three whole readings, a higher one before a
\* lower one, and the mean computed over them lies strictly between the
\* minimum and the maximum.
C18_Witness ==
  /\ pc = "done" /\ Len(records) = 3
  /\ \A i \in 1..Len(records) : WholeReading(records[i].CGM)
  /\ records[1].CGM > records[2].CGM
  /\ min_bg = records[2].CGM /\ max_bg = records[1].CGM
  /\ mean_bg # F64(min_bg) /\ mean_bg # F64(max_bg)
  /\ FLeq(F64(min_bg), mean_bg) /\ FLeq(mean_bg, F64(max_bg))

\* C19: env.reset is called exactly once and first, after which
\* controller.policy and env.step strictly alternate; every Action returned
\* by the controller is applied to the environment once and unmodified, and
\* at every loop boundary as many policy calls as step calls have been made.
C19_ProtocolOrder ==
  /\ \A i \in 1..Len(trace) :
       trace[i] = (IF i = 1 THEN "reset"
                   ELSE IF i % 2 = 0 THEN "policy" ELSE "step")
  /\ Len(trace) = (IF pc = "start" THEN 0 ELSE 1) + Len(calls) + Len(applied)
  /\ Len(calls) = Len(applied) + (IF pc = "step" THEN 1 ELSE 0)
  /\ \A i \in 1..Len(applied) : applied[i] = CallAction(i)

\* A run of two iterations has made its five calls in order.
C19_Witness ==
  /\ pc = "done"
  /\ trace = <<"reset", "policy", "step", "policy", "step">>
  /\ applied[1] # applied[2]

\* C20: no policy call changes the controller's state (init_state keeps
\* the value 0 given at construction) or the observation it was given.
C20_PolicyFrame ==
  /\ \A i \in CallIdx :
       /\ calls[i].self.init_state = 0
       /\ calls[i].result.self = calls[i].self
       /\ calls[i].result.observation = calls[i].observation
  /\ pc \notin {"start"} => controller.init_state = 0

\* Two policy calls have been made, one of them suspending with a meal.
C20_Witness ==
  /\ Len(calls) = 2 /\ controller.init_state = 0
  /\ \E i \in CallIdx : CallBG(i) < 700 /\ CallMeal(i) > 0

====
